---- MODULE Spec2Model ----
(***************************************************************************)
(* A model of scripts/f2p_from_swegent_bundle.py: one Fail2Pass check of a *)
(* SWEGENT bundle.  main() is a sequential program; its positions are the  *)
(* points where it reads the environment or waits for a child process.     *)
(* Spec is one invocation of main(); SpecRuns is several invocations that  *)
(* derive their run identifiers from one UTC clock.                        *)
(***************************************************************************)
EXTENDS Integers, Sequences, FiniteSets, TLC

\* Bounds of the model.
MaxPRs == 2
MaxExit == 1
MaxTick == 3
TicksPerSecond == 2
MaxRuns == 2

\* The most records a usage API response holds, and the most tokens of one
\* record.
MaxItems == 2

MaxTokens == 1

\* The most task_tracker invocations, and the most tasks of a task list.
MaxCalls == 3

MaxTasks == 2

\* Python's None and a present value: an optional value is <<>> or <<v>>.
None == <<>>

Some(v) == <<v>>

\* Python truthiness of an optional int (None and 0 are falsy) and of an
\* optional str (None and "" are falsy).
TruthyInt(o) == o # None /\ o[1] # 0

TruthyStrNotNone(o) == o # None

TruthyStr(o) == o # None /\ o[1] # ""

\* bool(x) for x in {None, False, True}.
BoolNotNone(o) == o # None

Bool(o) == o # None /\ o[1] = TRUE

\* str.strip() of the patch texts of the model: whitespace only strips to "".
StripNothing(s) == s

Strip(s) == IF s \in {" ", "\n"} THEN "" ELSE s

\* The file names of the model, each with its characters' code points.
Codes ==
  ( "claude.dockerfile" :> << 99, 108, 97, 117, 100, 101, 46, 100, 111, 99, 107, 101, 114, 102, 105, 108, 101 >> @@
    "gpt.dockerfile" :> << 103, 112, 116, 46, 100, 111, 99, 107, 101, 114, 102, 105, 108, 101 >> @@
    "issue_256.json" :> << 105, 115, 115, 117, 101, 95, 50, 53, 54, 46, 106, 115, 111, 110 >> @@
    "issue_9.json" :> << 105, 115, 115, 117, 101, 95, 57, 46, 106, 115, 111, 110 >> @@
    "issue_tools.py" :> << 105, 115, 115, 117, 101, 95, 116, 111, 111, 108, 115, 46, 112, 121 >> @@
    "test1.py" :> << 116, 101, 115, 116, 49, 46, 112, 121 >> @@
    "test256.py" :> << 116, 101, 115, 116, 50, 53, 54, 46, 112, 121 >> @@
    "util.py" :> << 117, 116, 105, 108, 46, 112, 121 >> )

\* Python's str comparison a < b: lexicographic on the code points.
RECURSIVE LexLess(_, _)
LexLess(a, b) ==
  IF b = <<>> THEN FALSE
  ELSE IF a = <<>> THEN TRUE
  ELSE IF Head(a) # Head(b) THEN Head(a) < Head(b)
  ELSE LexLess(Tail(a), Tail(b))

NameLess(m, n) == LexLess(Codes[m], Codes[n])

\* sorted(names): the names of the sequence in ascending lexicographic order
\* (insertion into the sorted rest).
RECURSIVE Insert(_, _)
Insert(n, s) ==
  IF s = <<>> THEN <<n>>
  ELSE IF NameLess(Head(s), n) THEN <<Head(s)>> \o Insert(n, Tail(s))
  ELSE <<n>> \o s

RECURSIVE InsertionSort(_)
InsertionSort(s) == IF s = <<>> THEN <<>> ELSE Insert(Head(s), InsertionSort(Tail(s)))

sorted_unsorted(s) == s

sorted(s) == InsertionSort(s)

\* bundle_dir.glob(pattern): the names of the directory listing that match,
\* in the order the file system lists them.
glob(listing, matching) == SelectSeq(listing, LAMBDA n : n \in matching)

\* The directory listings over a set of names: its subsets in any order.
Listings(S) ==
  { l \in UNION {[1..k -> S] : k \in 0..Cardinality(S)} :
      \A i \in DOMAIN l, j \in DOMAIN l : i # j => l[i] # l[j] }

IssueJsonNames == {"issue_256.json", "issue_9.json"}

DockerfileNames == {"claude.dockerfile", "gpt.dockerfile"}

TestPyNames == {"test1.py", "test256.py"}

OtherPyNames == {"issue_tools.py", "util.py"}

\* The exit statuses a child process can end with; None is a child that is
\* still running when the timeout elapses.
ExitCodes == 0..MaxExit

Children == {None} \cup {Some(c) : c \in ExitCodes}

\* ---------------------------------------------------------------- inputs

IssueNumbers == {None, Some(0), Some(256)}

\* An issue URL as its segments between "/": host, then the path.
Urls ==
  { None,
    Some(<<"github.com", "always-further", "AgentUp", "issues", "256">>),
    Some(<<"github.com", "always-further", "AgentUp", "pull", "257">>),
    Some(<<"github.com", "always-further", "AgentUp", "commit", "256">>),
    Some(<<"gitlab.com", "always-further", "AgentUp", "issues", "256">>) }

BaseShas == {None, Some(""), Some("abc123")}

HeadShas == {None, Some("abc123"), Some("def456")}

PatchTexts == {None, Some(""), Some(" "), Some("diff")}

PRs == [base_sha : BaseShas, head_sha : HeadShas, patch : PatchTexts]

SeqsUpTo(S, n) == UNION {[1..k -> S] : k \in 0..n}

\* ------------------------------------------------------------ pure parts

RunResult(ok, exit_code) == [ok |-> ok, exit_code |-> exit_code]

\* _run: subprocess.run raises TimeoutExpired when the child is still running
\* at the timeout, and _run does not catch it; otherwise a RunResult.
_run_always_ok(child) ==
  IF child = None
    THEN [raised |-> "TimeoutExpired", returned |-> None]
    ELSE [raised |-> "", returned |-> Some(RunResult(TRUE, child[1]))]

_run(child) ==
  IF child = None
    THEN [raised |-> "TimeoutExpired", returned |-> None]
    ELSE [raised |-> "", returned |-> Some(RunResult(child[1] = 0, child[1]))]

\* _die: print msg to stderr and sys.exit(2).
_die_exit_zero(msg) == [msg |-> msg, code |-> 0]

_die(msg) == [msg |-> msg, code |-> 2]

\* An exception nobody catches: the traceback goes to stderr and the
\* interpreter exits with status 1.
Uncaught(exc) == [msg |-> exc, code |-> 1]

\* _parse_repo_from_issue_url: re.search of
\* github\.com/([^/]+/[^/]+)/(?:issues|pull)/\d+ in (url or "").
EndsWithAnyHost(seg) == TRUE

EndsWithGithubCom(seg) == seg \in {"github.com", "api.github.com"}

StartsWithDigit(seg) == seg \in {"256", "257"}

_parse_repo_from_issue_url(url) ==
  IF /\ url # None
     /\ Len(url[1]) >= 5
     /\ EndsWithGithubCom(url[1][1])
     /\ url[1][2] # "" /\ url[1][3] # ""
     /\ url[1][4] \in {"issues", "pull"}
     /\ StartsWithDigit(url[1][5])
    THEN Some(<<url[1][2], url[1][3]>>)
    ELSE None

\* _load_issue_json: sorted(glob("issue_*.json"))[0], None when there is none
\* (FileNotFoundError).
_load_issue_json(listing) ==
  LET candidates == sorted(glob(listing, IssueJsonNames))
  IN  IF candidates = <<>> THEN None ELSE Some(candidates[1])

\* _pick_dockerfile: sorted(glob("*.dockerfile"))[0], None when there is none.
_pick_dockerfile(listing) ==
  LET cands == sorted(glob(listing, DockerfileNames))
  IN  IF cands = <<>> THEN None ELSE Some(cands[1])

\* _pick_tests: sorted test*.py, else the sorted *.py not starting "issue_".
StartsWithIssue(name) == name \in {"issue_tools.py"}

_pick_tests(listing) ==
  LET tests == sorted(glob(listing, TestPyNames))
      py    == SelectSeq(sorted(glob(listing, TestPyNames \cup OtherPyNames)),
                         LAMBDA n : ~StartsWithIssue(n))
  IN  IF tests # <<>> THEN tests ELSE py

\* pr0 = linked_prs[0]: the record main() takes base_sha, head_sha and the
\* patch from.
FirstQualifyingPR(linked_prs) ==
  LET ok(i) == /\ TruthyStr(linked_prs[i].base_sha)
               /\ linked_prs[i].patch # None
               /\ Strip(linked_prs[i].patch[1]) # ""
  IN  IF \E i \in DOMAIN linked_prs : ok(i)
        THEN linked_prs[CHOOSE i \in DOMAIN linked_prs :
                          ok(i) /\ \A j \in DOMAIN linked_prs : ok(j) => i <= j]
        ELSE linked_prs[1]

AuthoritativePR(linked_prs) == linked_prs[1]

\* _classify
_classify_swapped(before_ok, after_ok) ==
  IF (~before_ok) /\ after_ok THEN "fail2fail"
  ELSE IF (~before_ok) /\ (~after_ok) THEN "fail2pass"
  ELSE IF before_ok /\ after_ok THEN "pass2pass"
  ELSE IF before_ok /\ (~after_ok) THEN "pass2fail"
  ELSE "error"

_classify(before_ok, after_ok) ==
  IF (~before_ok) /\ after_ok THEN "fail2pass"
  ELSE IF (~before_ok) /\ (~after_ok) THEN "fail2fail"
  ELSE IF before_ok /\ after_ok THEN "pass2pass"
  ELSE IF before_ok /\ (~after_ok) THEN "pass2fail"
  ELSE "error"

\* strftime("%Y%m%dT%H%M%SZ") of the clock: the instant cut to whole seconds.
strftime(now) == now \div TicksPerSecond

\* run_id = f"issue_{issue_number}-{ts}" if issue_number else f"bundle-{ts}"
RunId(issue_number, now) ==
  IF TruthyInt(issue_number)
    THEN <<"issue_", issue_number[1], "-", strftime(now)>>
    ELSE <<"bundle-", strftime(now)>>

\* str.lower on the pieces of text an image tag is made of: an upper-case
\* letter becomes its lower-case letter, every other character (digits, "_",
\* "-") stays.
lower(s) ==
  CASE s = "ISSUE_"  -> "issue_"
    [] s = "BUNDLE-" -> "bundle-"
    [] s = "BEFORE"  -> "before"
    [] s = "AFTER"   -> "after"
    [] OTHER         -> s

\* .lower() of a run identifier: of its text pieces; the digits of the issue
\* number and of the timestamp stay.
LowerRunId(run_id) ==
  IF Len(run_id) = 4
    THEN <<lower(run_id[1]), run_id[2], lower(run_id[3]), run_id[4]>>
    ELSE <<lower(run_id[1]), run_id[2]>>

\* image = f"swegent-f2p:{run_id}-{label}".lower()
ImageWithoutLabel(run_id, label) ==
  [name |-> "swegent-f2p", tag |-> <<LowerRunId(run_id), "">>]

Image(run_id, label) ==
  [name |-> lower("swegent-f2p"), tag |-> <<LowerRunId(run_id), lower(label)>>]

\* build_and_test(label, worktree) is called with base_dir for "before" and
\* head_dir for "after" (lines 251-252).
BuildWorktree(label) == IF label = "before" THEN "base" ELSE "head"

\* git apply runs with cwd=head_dir (line 207).
PatchWorktreeBase == "base"

PatchWorktree == "head"

\* The revision the head worktree is checked out at: base_sha (line 201).
HeadWorktreeRevisionFromHeadSha(base_sha, head_sha) ==
  IF head_sha # None THEN head_sha[1] ELSE base_sha

HeadWorktreeRevision(base_sha, head_sha) == base_sha

\* ----------------------------------------------------------------- state

VARIABLES
  pc,         \* position of main()
  args,       \* the parsed command line
  issue,      \* None, or what main() took from issue_*.json
  picked,     \* None, or the dockerfile and test files picked
  meta,       \* None, or the meta record written to meta.json
  cmds,       \* the child processes started so far, in order, with results
  files,      \* the files main() has written under run_root
  wt,         \* the base and head worktrees
  b,          \* build_and_test's local b between its build and its test
  outcome,    \* the records build_and_test returned, per label
  report,     \* the reports written to f2p_report.json, in order
  exit_code,  \* None while running, else the process exit status
  stderr,     \* the messages printed to the error stream
  input,      \* what the latest step of main() read from its environment
  clock,      \* SpecRuns: the UTC clock, in ticks
  runs,       \* SpecRuns: per invocation, its position, bundle and run_id
  dirs,       \* SpecRuns: the run directories that exist under work_dir
  stats,      \* SpecStats: the StatsTool session and its statistics file
  tt          \* SpecTracker: the task_tracker invocations so far, in order

vars ==
  << pc, args, issue, picked, meta, cmds, files, wt, b, outcome, report,
     exit_code, stderr, input, clock, runs, dirs, stats, tt >>

toolVars == << stats, tt >>

runVars == << clock, runs, dirs, toolVars >>

Labels == {"before", "after"}

Worktrees == {"base", "head"}

InitMain ==
  /\ pc = "start"
  /\ args = [keep_workdir |-> FALSE]
  /\ issue = None
  /\ picked = None
  /\ meta = None
  /\ cmds = <<>>
  /\ files = {}
  /\ wt = [d \in Worktrees |-> None]
  /\ b = None
  /\ outcome = [l \in Labels |-> None]
  /\ report = <<>>
  /\ exit_code = None
  /\ stderr = <<>>
  /\ input = [step |-> "none"]

InitRuns ==
  /\ clock = 0
  /\ runs = [i \in 1..MaxRuns |-> [pc |-> "idle", issue_number |-> None, run_id |-> None]]
  /\ dirs = {}

\* No StatsTool call was made and data/stats.json does not exist; no
\* task_tracker invocation was made.
InitTools ==
  /\ stats = [pc |-> "idle", file |-> None, start |-> None, end |-> None]
  /\ tt = <<>>

Init == InitMain /\ InitRuns /\ InitTools

\* The process ends with e.code after printing e.msg to stderr.
Terminate(e) ==
  /\ pc' = "done"
  /\ exit_code' = Some(e.code)
  /\ stderr' = Append(stderr, e.msg)

Continue(next) ==
  /\ pc' = next
  /\ UNCHANGED << exit_code, stderr >>

\* main() returns: the interpreter exits with status 0.
ReturnFromMain ==
  /\ pc' = "done"
  /\ exit_code' = Some(0)
  /\ UNCHANGED stderr

\* _ensure_tools: the first of git, docker that shutil.which does not find.
_ensure_tools_git_only(which) ==
  IF "git" \notin which
    THEN Some(_die("Missing required tool: git. Please install it first."))
  ELSE None

_ensure_tools(which) ==
  IF "git" \notin which
    THEN Some(_die("Missing required tool: git. Please install it first."))
  ELSE IF "docker" \notin which
    THEN Some(_die("Missing required tool: docker. Please install it first."))
  ELSE None

\* main, lines 113-129: the arguments, the bundle directory, the tools.
Start ==
  /\ pc = "start"
  /\ \E keep \in BOOLEAN, bundle_exists \in BOOLEAN, which \in SUBSET {"git", "docker"} :
       /\ args' = [keep_workdir |-> keep]
       /\ input' = [step |-> "start", bundle_exists |-> bundle_exists, which |-> which]
       /\ IF ~bundle_exists
            THEN Terminate(_die("Bundle dir not found"))
          ELSE IF _ensure_tools(which) # None
            THEN Terminate(_ensure_tools(which)[1])
          ELSE Continue("issue_json")
  /\ UNCHANGED << issue, picked, meta, cmds, files, wt, b, outcome, report, runVars >>

\* main, line 131: _load_issue_json finds and opens the issue descriptor.
LoadIssueJson ==
  /\ pc = "issue_json"
  /\ \E listing \in Listings(IssueJsonNames) :
       LET issue_json == _load_issue_json(listing)
       IN  /\ input' = [step |-> "issue_json", listing |-> listing, loaded |-> issue_json]
           /\ IF issue_json = None
                THEN Terminate(Uncaught("FileNotFoundError"))
                ELSE Continue("load")
  /\ UNCHANGED << args, issue, picked, meta, cmds, files, wt, b, outcome, report, runVars >>

\* main, lines 132-146: the issue number, the repository, the linked PR.
\* linked_prs is read only when the URL parsed (read_prs).
LoadIssue ==
  /\ pc = "load"
  /\ \E number \in IssueNumbers, url \in Urls :
       LET repo == _parse_repo_from_issue_url(url) IN
       IF repo = None
         THEN /\ Terminate(Uncaught("ValueError"))
              /\ input' = [step |-> "load", number |-> number, url |-> url,
                           read_prs |-> FALSE, linked_prs |-> <<>>]
              /\ UNCHANGED issue
       ELSE \E linked_prs \in SeqsUpTo(PRs, MaxPRs) :
         /\ input' = [step |-> "load", number |-> number, url |-> url,
                      read_prs |-> TRUE, linked_prs |-> linked_prs]
         /\ IF linked_prs = <<>>
              THEN /\ Terminate(_die("issue_*.json has no linked_prs; cannot get base/head sha."))
                   /\ UNCHANGED issue
            ELSE
              LET pr0        == AuthoritativePR(linked_prs)
                  patch_text == IF pr0.patch = None THEN "" ELSE pr0.patch[1]
              IN  IF ~TruthyStr(pr0.base_sha)
                    THEN /\ Terminate(_die("linked_prs[0] missing base_sha."))
                         /\ UNCHANGED issue
                  ELSE IF Strip(patch_text) = ""
                    THEN /\ Terminate(_die("linked_prs[0] missing patch text; cannot apply fix on top of base_sha."))
                         /\ UNCHANGED issue
                  ELSE /\ issue' = Some([ number     |-> number,
                                          url        |-> url[1],
                                          repo       |-> repo[1],
                                          base_sha   |-> pr0.base_sha[1],
                                          head_sha   |-> pr0.head_sha,
                                          patch_text |-> patch_text ])
                       /\ Continue("pick_dockerfile")
  /\ UNCHANGED << args, picked, meta, cmds, files, wt, b, outcome, report, runVars >>

\* main, line 148: the dockerfile of the bundle.
PickDockerfile ==
  /\ pc = "pick_dockerfile"
  /\ \E listing \in Listings(DockerfileNames) :
       LET dockerfile_src == _pick_dockerfile(listing)
       IN  /\ input' = [step |-> "dockerfile", listing |-> listing]
           /\ IF dockerfile_src = None
                THEN Terminate(Uncaught("FileNotFoundError")) /\ UNCHANGED picked
                ELSE /\ picked' = Some([dockerfile_src |-> dockerfile_src[1],
                                        test_files |-> <<>>])
                     /\ Continue("pick_tests")
  /\ UNCHANGED << args, issue, meta, cmds, files, wt, b, outcome, report, runVars >>

\* main, lines 149-151: the test files of the bundle.
PickTests ==
  /\ pc = "pick_tests"
  /\ \E listing \in Listings(TestPyNames \cup OtherPyNames) :
       LET test_files == _pick_tests(listing)
       IN  /\ input' = [step |-> "tests", listing |-> listing]
           /\ IF test_files = <<>>
                THEN Terminate(_die("No test*.py found")) /\ UNCHANGED picked
                ELSE /\ picked' = Some([picked[1] EXCEPT !.test_files = test_files])
                     /\ Continue("mkrun")
  /\ UNCHANGED << args, issue, meta, cmds, files, wt, b, outcome, report, runVars >>

\* main, lines 153-169: the run identifier, the run directory, meta.json.
MakeRun ==
  /\ pc = "mkrun"
  /\ \E now \in 0..MaxTick :
       /\ input' = [step |-> "mkrun", now |-> now]
       /\ meta' = Some([ run_id       |-> RunId(issue[1].number, now),
                         repo         |-> issue[1].repo,
                         issue_url    |-> issue[1].url,
                         issue_number |-> issue[1].number,
                         base_sha     |-> issue[1].base_sha,
                         head_sha     |-> issue[1].head_sha,
                         dockerfile   |-> picked[1].dockerfile_src,
                         tests        |-> picked[1].test_files ])
       /\ dirs' = dirs \cup {RunId(issue[1].number, now)}
  /\ files' = files \cup {<<"meta.json">>}
  /\ Continue("clone")
  /\ UNCHANGED << args, issue, picked, cmds, wt, b, outcome, report, clock, runs, toolVars >>

\* ------------------------------------------------------- child processes

\* One entry of cmds: the command, where it ran, how the child ended and what
\* _run made of it.
Cmd(stage, tool, verb, target, rev, cwd, child) ==
  [ stage |-> stage, tool |-> tool, verb |-> verb, target |-> target,
    rev |-> rev, cwd |-> cwd, image |-> None, child |-> child,
    res |-> _run(child) ]

\* A docker command of build_and_test, run in the worktree cwd.
DockerCmd(stage, verb, image, cwd, child) ==
  [Cmd(stage, "docker", verb, "", "", cwd, child) EXCEPT !.image = Some(image)]

\* The stdout and stderr files main() writes after a child has returned.
LogFiles(stage) == {<<stage, "stdout.txt">>, <<stage, "stderr.txt">>}

\* A workspace step: run the command; an exception ends the process before
\* the logs are written; a failed result is logged and then fatal.
WorkspaceStepRetries(c, msg, next) ==
  /\ cmds' = Append(cmds, c)
  /\ IF c.res.raised # ""
       THEN Terminate(Uncaught(c.res.raised)) /\ UNCHANGED files
       ELSE /\ files' = files \cup LogFiles(c.stage)
            /\ IF ~c.res.returned[1].ok
                 THEN UNCHANGED << pc, exit_code, stderr >>
                 ELSE Continue(next)

WorkspaceStep(c, msg, next) ==
  /\ cmds' = Append(cmds, c)
  /\ IF c.res.raised # ""
       THEN Terminate(Uncaught(c.res.raised)) /\ UNCHANGED files
       ELSE /\ files' = files \cup LogFiles(c.stage)
            /\ IF ~c.res.returned[1].ok
                 THEN Terminate(_die(msg))
                 ELSE Continue(next)

Succeeded(c) == c.res.raised = "" /\ c.res.returned[1].ok

\* main, lines 177-181
Clone ==
  /\ pc = "clone"
  /\ \E child \in Children :
       WorkspaceStep(
         Cmd("git_clone", "git", "clone --no-checkout", "repo", "", "run_root", child),
         "git clone failed (see logs under run_root)", "fetch")
  /\ UNCHANGED << args, issue, picked, meta, wt, b, outcome, report, input, runVars >>

\* main, lines 183-191: fetch, then write gold_patch.diff.
Fetch ==
  /\ pc = "fetch"
  /\ \E child \in Children :
       LET c == Cmd("git_fetch", "git", "fetch --all --tags", "", "", "repo", child)
       IN  /\ cmds' = Append(cmds, c)
           /\ IF c.res.raised # ""
                THEN Terminate(Uncaught(c.res.raised)) /\ UNCHANGED files
              ELSE IF ~c.res.returned[1].ok
                THEN /\ files' = files \cup LogFiles(c.stage)
                     /\ Terminate(_die("git fetch failed"))
              ELSE /\ files' = files \cup LogFiles(c.stage) \cup {<<"gold_patch.diff">>}
                   /\ Continue("wt_base")
  /\ UNCHANGED << args, issue, picked, meta, wt, b, outcome, report, input, runVars >>

\* A fresh detached checkout of rev.
Checkout(rev) ==
  Some([rev |-> rev, patched |-> FALSE, staged |-> {}, staged_after |-> 0])

\* main, lines 194-198
WorktreeBase ==
  /\ pc = "wt_base"
  /\ \E child \in Children :
       LET c == Cmd("git_worktree_base", "git", "worktree add --detach", "base",
                    meta[1].base_sha, "repo", child)
       IN  /\ WorkspaceStep(c, "git worktree add (base) failed", "wt_head")
           /\ wt' = IF Succeeded(c) THEN [wt EXCEPT !["base"] = Checkout(c.rev)] ELSE wt
  /\ UNCHANGED << args, issue, picked, meta, b, outcome, report, input, runVars >>

\* main, lines 200-205
WorktreeHead ==
  /\ pc = "wt_head"
  /\ \E child \in Children :
       LET c == Cmd("git_worktree_head", "git", "worktree add --detach", "head",
                    HeadWorktreeRevision(meta[1].base_sha, meta[1].head_sha),
                    "repo", child)
       IN  /\ WorkspaceStep(c, "git worktree add (head) failed", "apply")
           /\ wt' = IF Succeeded(c) THEN [wt EXCEPT !["head"] = Checkout(c.rev)] ELSE wt
  /\ UNCHANGED << args, issue, picked, meta, b, outcome, report, input, runVars >>

\* stage_bundle_into: copy the dockerfile and the test files into a worktree;
\* staged_after is the number of commands executed before the copy.
stage_bundle_dockerfile_only(w) ==
  Some([w[1] EXCEPT !.staged = {picked[1].dockerfile_src},
                    !.staged_after = Len(cmds)])

stage_bundle_into(w) ==
  Some([w[1] EXCEPT !.staged = {picked[1].dockerfile_src}
                               \cup {picked[1].test_files[i] : i \in 1..Len(picked[1].test_files)},
                    !.staged_after = Len(cmds)])

\* main, lines 207-211: apply the patch in the head worktree.
ApplyPatch ==
  /\ pc = "apply"
  /\ \E child \in Children :
       LET c == Cmd("git_apply_patch", "git", "apply --whitespace=nowarn",
                    "gold_patch.diff", "", PatchWorktree, child)
       IN  /\ WorkspaceStep(c, "git apply patch failed (see git_apply_patch.stderr.txt)",
                            "stage")
           /\ wt' = IF Succeeded(c)
                      THEN [wt EXCEPT ![c.cwd] = Some([@[1] EXCEPT !.patched = TRUE])]
                      ELSE wt
  /\ UNCHANGED << args, issue, picked, meta, b, outcome, report, input, runVars >>

\* main, lines 213-220: stage the bundle into the base worktree, then into
\* the head worktree.
StageBundle ==
  /\ pc = "stage"
  /\ wt' = [ base |-> stage_bundle_into(wt["base"]),
             head |-> stage_bundle_into(wt["head"]) ]
  /\ Continue("build_before")
  /\ UNCHANGED << args, issue, picked, meta, cmds, files, b, outcome, report,
                  input, runVars >>
\* ------------------------------------------------------- build_and_test

\* The record build_and_test returns right after a failed build (line 235).
BuildFailedOutcome(label, image, bres) ==
  [ label |-> label, image |-> image, build_ok |-> FALSE, test_ok |-> Some(FALSE),
    build_exit |-> bres.exit_code, test_exit |-> None ]

\* The record build_and_test returns after the test ran (lines 242-249).
TestedOutcomeTestOkFromBuild(label, image, bres, tres) ==
  [ label |-> label, image |-> image, build_ok |-> TRUE, test_ok |-> Some(bres.ok),
    build_exit |-> bres.exit_code, test_exit |-> Some(tres.exit_code) ]

TestedOutcome(label, image, bres, tres) ==
  [ label |-> label, image |-> image, build_ok |-> TRUE, test_ok |-> Some(tres.ok),
    build_exit |-> bres.exit_code, test_exit |-> Some(tres.exit_code) ]

\* if not b.ok: return ... (line 234): the test runs only after a build that
\* _run reported ok.
BuildOkAlways(bres) == TRUE

BuildOk(bres) == bres.ok

\* main, lines 254-270: classify, write f2p_report.json, then either return
\* (--keep-workdir) or go on to remove the worktrees.
WriteReport(logged, after) ==
  /\ outcome' = [outcome EXCEPT !["after"] = Some(after)]
  /\ report' = Append(report,
       [ meta   |-> meta[1],
         status |-> _classify(Bool(outcome["before"][1].test_ok), Bool(after.test_ok)),
         before |-> outcome["before"][1],
         after  |-> after ])
  /\ files' = logged \cup {<<"f2p_report.json">>}
  /\ IF args.keep_workdir THEN ReturnFromMain ELSE Continue("rm_base")

\* build_and_test("before", base_dir), lines 225-235: docker build.
BuildBefore ==
  /\ pc = "build_before"
  /\ \E child \in Children :
       LET image == Image(meta[1].run_id, "before")
           c     == DockerCmd("docker_build_before", "build", image, BuildWorktree("before"), child)
       IN  /\ cmds' = Append(cmds, c)
           /\ IF c.res.raised # ""
                THEN /\ Terminate(Uncaught(c.res.raised))
                     /\ UNCHANGED << files, b, outcome >>
              ELSE IF ~BuildOk(c.res.returned[1])
                THEN /\ files' = files \cup LogFiles(c.stage)
                     /\ outcome' = [outcome EXCEPT !["before"] =
                                      Some(BuildFailedOutcome("before", image, c.res.returned[1]))]
                     /\ b' = None
                     /\ Continue("build_after")
              ELSE /\ files' = files \cup LogFiles(c.stage)
                   /\ b' = c.res.returned
                   /\ UNCHANGED outcome
                   /\ Continue("test_before")
  /\ UNCHANGED << args, issue, picked, meta, wt, report, input, runVars >>

\* build_and_test("before", base_dir), lines 237-249: docker run pytest.
TestBefore ==
  /\ pc = "test_before"
  /\ \E child \in Children :
       LET image == Image(meta[1].run_id, "before")
           c     == DockerCmd("pytest_before", "run --rm pytest", image, BuildWorktree("before"), child)
       IN  /\ cmds' = Append(cmds, c)
           /\ IF c.res.raised # ""
                THEN /\ Terminate(Uncaught(c.res.raised))
                     /\ UNCHANGED << files, b, outcome >>
              ELSE /\ files' = files \cup LogFiles(c.stage)
                   /\ outcome' = [outcome EXCEPT !["before"] =
                                    Some(TestedOutcome("before", image, b[1], c.res.returned[1]))]
                   /\ b' = None
                   /\ Continue("build_after")
  /\ UNCHANGED << args, issue, picked, meta, wt, report, input, runVars >>

\* build_and_test("after", head_dir), lines 225-235, and on a failed build
\* the rest of main.
BuildAfter ==
  /\ pc = "build_after"
  /\ \E child \in Children :
       LET image == Image(meta[1].run_id, "after")
           c     == DockerCmd("docker_build_after", "build", image, BuildWorktree("after"), child)
       IN  /\ cmds' = Append(cmds, c)
           /\ IF c.res.raised # ""
                THEN /\ Terminate(Uncaught(c.res.raised))
                     /\ UNCHANGED << files, b, outcome, report >>
              ELSE IF ~BuildOk(c.res.returned[1])
                THEN /\ WriteReport(files \cup LogFiles(c.stage),
                                    BuildFailedOutcome("after", image, c.res.returned[1]))
                     /\ b' = None
              ELSE /\ files' = files \cup LogFiles(c.stage)
                   /\ b' = c.res.returned
                   /\ UNCHANGED << outcome, report >>
                   /\ Continue("test_after")
  /\ UNCHANGED << args, issue, picked, meta, wt, input, runVars >>

\* build_and_test("after", head_dir), lines 237-249, and the rest of main.
TestAfter ==
  /\ pc = "test_after"
  /\ \E child \in Children :
       LET image == Image(meta[1].run_id, "after")
           c     == DockerCmd("pytest_after", "run --rm pytest", image, BuildWorktree("after"), child)
       IN  /\ cmds' = Append(cmds, c)
           /\ IF c.res.raised # ""
                THEN /\ Terminate(Uncaught(c.res.raised))
                     /\ UNCHANGED << files, b, outcome, report >>
              ELSE /\ WriteReport(files \cup LogFiles(c.stage),
                                  TestedOutcome("after", image, b[1], c.res.returned[1]))
                   /\ b' = None
  /\ UNCHANGED << args, issue, picked, meta, wt, input, runVars >>

\* ---------------------------------------------------------------- cleanup

\* try: ... except Exception: pass (lines 272-276): an exception of a removal
\* command is swallowed and main returns.
CleanupRaisedUncaught(exc) == Terminate(Uncaught(exc))

CleanupRaised(exc) == ReturnFromMain

\* main, line 273
RemoveBase ==
  /\ pc = "rm_base"
  /\ \E child \in Children :
       LET c == Cmd("git_worktree_remove_base", "git", "worktree remove --force",
                    "base", "", "repo", child)
       IN  /\ cmds' = Append(cmds, c)
           /\ IF c.res.raised # "" THEN CleanupRaised(c.res.raised) ELSE Continue("rm_head")
           /\ wt' = IF Succeeded(c) THEN [wt EXCEPT !["base"] = None] ELSE wt
  /\ UNCHANGED << args, issue, picked, meta, files, b, outcome, report, input, runVars >>

\* main, line 274, and the return of main.
RemoveHead ==
  /\ pc = "rm_head"
  /\ \E child \in Children :
       LET c == Cmd("git_worktree_remove_head", "git", "worktree remove --force",
                    "head", "", "repo", child)
       IN  /\ cmds' = Append(cmds, c)
           /\ IF c.res.raised # "" THEN CleanupRaised(c.res.raised) ELSE ReturnFromMain
           /\ wt' = IF Succeeded(c) THEN [wt EXCEPT !["head"] = None] ELSE wt
  /\ UNCHANGED << args, issue, picked, meta, files, b, outcome, report, input, runVars >>

mainVars ==
  << pc, args, issue, picked, meta, cmds, files, wt, b, outcome, report,
     exit_code, stderr, input >>

Next ==
  \/ Start
  \/ LoadIssueJson
  \/ LoadIssue
  \/ PickDockerfile
  \/ PickTests
  \/ MakeRun
  \/ Clone
  \/ Fetch
  \/ WorktreeBase
  \/ WorktreeHead
  \/ ApplyPatch
  \/ StageBundle
  \/ BuildBefore
  \/ TestBefore
  \/ BuildAfter
  \/ TestAfter
  \/ RemoveBase
  \/ RemoveHead

Spec == Init /\ [][Next]_vars

\* ------------------------------------------------- concurrent invocations

\* The UTC clock advances.
Tick ==
  /\ clock < MaxTick
  /\ clock' = clock + 1
  /\ UNCHANGED << runs, dirs, mainVars, toolVars >>

\* Invocation i starts on a bundle whose issue descriptor has this number.
Invoke(i) ==
  /\ runs[i].pc = "idle"
  /\ \E number \in IssueNumbers :
       runs' = [runs EXCEPT ![i] = [@ EXCEPT !.pc = "mkrun", !.issue_number = number]]
  /\ UNCHANGED << clock, dirs, mainVars, toolVars >>

\* main, lines 153-156, of invocation i: the run identifier from the clock,
\* and run_root.mkdir(parents=True, exist_ok=True).
MakeRunDir(i) ==
  /\ runs[i].pc = "mkrun"
  /\ LET run_id == RunId(runs[i].issue_number, clock)
     IN  /\ runs' = [runs EXCEPT ![i] = [@ EXCEPT !.pc = "running", !.run_id = Some(run_id)]]
         /\ dirs' = dirs \cup {run_id}
  /\ UNCHANGED << clock, mainVars, toolVars >>

NextRuns ==
  \/ Tick
  \/ \E i \in 1..MaxRuns : Invoke(i)
  \/ \E i \in 1..MaxRuns : MakeRunDir(i)

SpecRuns == Init /\ [][NextRuns]_vars
\* --------------------------------------------------- StatsTool (entry.py)

\* What requests.get(.../statistic/usage/realtime) can come to: a network
\* error, a status other than 200, a body that is not JSON, or a JSON body:
\* an object with "items", an object without, an empty object, or a list.
ItemLists == SeqsUpTo(0..MaxTokens, MaxItems)

ApiResponses ==
  [kind : {"network_error", "http_error", "bad_json", "dict_no_items", "empty_dict"},
   items : {<<>>}]
  \cup [kind : {"dict", "list"}, items : ItemLists]

\* get_all_paginated_stats: None without an API key and on every error,
\* else response.json().
get_all_paginated_stats(has_key, resp) ==
  IF ~has_key THEN None
  ELSE IF resp.kind \in {"network_error", "http_error", "bad_json"} THEN None
  ELSE Some(resp)

\* `if all_session_data:`: None, {} and [] are false.
TruthyJson(o) ==
  /\ o # None
  /\ o[1].kind # "empty_dict"
  /\ o[1].kind = "list" => o[1].items # <<>>

\* all_session_data.get("items", []): a list has no attribute get.
GetItems(json) ==
  IF json.kind = "list" THEN [raised |-> "AttributeError", items |-> <<>>]
  ELSE [raised |-> "", items |-> json.items]

RECURSIVE SumTokens(_)
SumTokens(items) ==
  IF items = <<>> THEN 0 ELSE Head(items) + SumTokens(Tail(items))

\* load_existing_stats: the content of data/stats.json, else the default
\* structure.
DefaultStats ==
  [session_start |-> None, session_end |-> None, end_stats |-> None,
   usage_delta |-> None]

load_existing_stats(file) == IF file = None THEN DefaultStats ELSE file[1]

\* save_stats: write the file; an error is printed and swallowed.
save_stats(file, stats_data, disk_ok) == IF disk_ok THEN Some(stats_data) ELSE file

\* record_session_start (lines 217-247).
StatsStart ==
  /\ stats.pc = "idle"
  /\ \E now \in 1..MaxTick, disk_ok \in BOOLEAN :
       LET stats_data == [load_existing_stats(stats.file) EXCEPT
                            !.session_start = Some(now)]
       IN  stats' = [ pc    |-> "started",
                      file  |-> save_stats(stats.file, stats_data, disk_ok),
                      start |-> Some([now |-> now, disk_ok |-> disk_ok]),
                      end   |-> None ]
  /\ UNCHANGED << mainVars, clock, runs, dirs, tt >>

\* record_session_end (lines 249-308).
StatsEnd ==
  /\ stats.pc = "started"
  /\ \E now \in stats.start[1].now..MaxTick, has_key \in BOOLEAN,
        resp \in ApiResponses, disk_ok \in BOOLEAN :
       LET loaded   == load_existing_stats(stats.file)
           all_data == get_all_paginated_stats(has_key, resp)
           ended    == [loaded EXCEPT !.session_end = Some(now)]
           got      == IF TruthyJson(all_data) THEN GetItems(all_data[1])
                       ELSE [raised |-> "", items |-> <<>>]
           session_stats == [ total_tokens   |-> SumTokens(got.items),
                              requests_count |-> Len(got.items) ]
           stats_data ==
             IF TruthyJson(all_data)
               THEN [ended EXCEPT !.end_stats = Some(<<session_stats>>),
                                  !.usage_delta = Some(session_stats)]
               ELSE [ended EXCEPT !.end_stats = Some(<<>>), !.usage_delta = None]
           call == [now |-> now, has_key |-> has_key, resp |-> resp,
                    disk_ok |-> disk_ok, raised |-> got.raised]
       IN  IF got.raised # ""
             THEN stats' = [stats EXCEPT !.pc = "raised", !.end = Some(call)]
             ELSE stats' = [stats EXCEPT
                              !.pc = "ended",
                              !.file = save_stats(stats.file, stats_data, disk_ok),
                              !.end = Some(call)]
  /\ UNCHANGED << mainVars, clock, runs, dirs, tt >>

NextStats == StatsStart \/ StatsEnd

SpecStats == Init /\ [][NextStats]_vars

\* ---------------------------------------------- task_tracker (tools)

\* The --task_list argument: absent, text that is not JSON, JSON that is not
\* a list, or a JSON list of n task objects.
TaskLists ==
  [kind : {"absent", "invalid", "object"}, n : {0}]
  \cup [kind : {"list"}, n : 0..MaxTasks]

\* _count_tasks: len of the JSON list, 0 for anything else.
_count_tasks(raw) == IF raw.kind = "list" THEN raw.n ELSE 0

\* What one invocation prints.
NoTaskListFound == [text |-> "No task list found", count |-> 0]

TaskListUpdated(count) == [text |-> "Task list has been updated", count |-> count]

\* main of task_tracker.py with --command view (lines 34-36).
TaskTrackerView ==
  /\ Len(tt) < MaxCalls
  /\ tt' = Append(tt, [ command   |-> "view",
                        task_list |-> [kind |-> "absent", n |-> 0],
                        out       |-> NoTaskListFound ])
  /\ UNCHANGED << mainVars, clock, runs, dirs, stats >>

\* main of task_tracker.py with --command plan (lines 38-39).
TaskTrackerPlan ==
  /\ Len(tt) < MaxCalls
  /\ \E raw \in TaskLists :
       tt' = Append(tt, [ command   |-> "plan",
                          task_list |-> raw,
                          out       |-> TaskListUpdated(_count_tasks(raw)) ])
  /\ UNCHANGED << mainVars, clock, runs, dirs, stats >>

NextTracker == TaskTrackerView \/ TaskTrackerPlan

SpecTracker == Init /\ [][NextTracker]_vars

\* ----------------------------------------------------------------- claims

Indices == 1..Len(cmds)

NonZeroExit(c) == c.child # None /\ c.child[1] # 0

TimedOut(c) == c.child = None

DockerStarted == \E i \in Indices : cmds[i].tool = "docker"

WorkspaceStages ==
  << "git_clone", "git_fetch", "git_worktree_base", "git_worktree_head",
     "git_apply_patch" >>

\* The table of section 4.6, written out.
ClassifyTable ==
  [ before_ok \in BOOLEAN |->
      [ after_ok \in BOOLEAN |->
          IF before_ok THEN (IF after_ok THEN "pass2pass" ELSE "pass2fail")
                       ELSE (IF after_ok THEN "fail2pass" ELSE "fail2fail") ] ]

\* C1: _classify is total over its two boolean inputs and follows the table:
\* on every pair of booleans, and on every pair main() hands it when it writes
\* a report, the label is the table's, one of the four, and never "error".
C1_ClassifyFollowsTable ==
  /\ \A x \in BOOLEAN, y \in BOOLEAN :
       /\ _classify(x, y) = ClassifyTable[x][y]
       /\ _classify(x, y) \in {"fail2pass", "fail2fail", "pass2pass", "pass2fail"}
  /\ \A i \in 1..Len(report) :
       /\ report[i].status =
            ClassifyTable[Bool(report[i].before.test_ok)][Bool(report[i].after.test_ok)]
       /\ report[i].status # "error"

\* C1 witness: a report was written for a failing before test and a passing
\* after test.
C1_Witness ==
  /\ Len(report) = 1
  /\ report[1].before.test_ok = Some(FALSE) /\ report[1].before.build_ok
  /\ report[1].after.test_ok = Some(TRUE)
  /\ report[1].status = "fail2pass"

\* C2 (as claimed): whenever an outcome record of build_and_test has
\* build_ok = false, its test_ok is null, never true and never false.
C2_TestOkNullAfterFailedBuild ==
  \A l \in Labels :
    (outcome[l] # None /\ ~outcome[l][1].build_ok) => outcome[l][1].test_ok = None

\* C3: every git worktree add of a run, the head one included, checks out
\* base_sha; the head worktree is at the revision of the base worktree; the
\* recorded head_sha is never a checkout revision.
C3_HeadWorktreeAtBaseSha ==
  /\ \A i \in Indices :
       cmds[i].verb = "worktree add --detach" => cmds[i].rev = meta[1].base_sha
  /\ \A i \in Indices, j \in Indices :
       (cmds[i].stage = "git_worktree_base" /\ cmds[j].stage = "git_worktree_head")
         => cmds[i].rev = cmds[j].rev
  /\ wt["head"] # None => (wt["base"] # None => wt["head"][1].rev = wt["base"][1].rev)
  /\ \A d \in Worktrees : wt[d] # None => wt[d][1].rev = meta[1].base_sha

\* C3 witness: the head worktree exists in a run whose bundle records a
\* head_sha different from base_sha.
C3_Witness ==
  /\ wt["head"] # None
  /\ meta[1].head_sha # None
  /\ meta[1].head_sha[1] # meta[1].base_sha

\* C4: a docker command is started only after clone, fetch, worktree-add base,
\* worktree-add head and patch-apply were the first five commands, in that
\* order, each ended with exit status 0; a run in which one of them did not
\* has ended with no docker command and nothing staged into a worktree.
C4_WorkspaceBeforeBuild ==
  /\ DockerStarted =>
       /\ Len(cmds) > 5
       /\ \A k \in 1..5 :
            cmds[k].stage = WorkspaceStages[k] /\ cmds[k].child = Some(0)
  /\ \A i \in Indices : cmds[i].tool = "docker" => i > 5
  /\ \A i \in Indices :
       (i <= 5 /\ cmds[i].child # Some(0)) =>
         /\ pc = "done"
         /\ Len(cmds) = i
         /\ \A d \in Worktrees : wt[d] # None => wt[d][1].staged = {}

\* C4 witness: the before build has been started.
C4_Witness == Len(cmds) >= 6 /\ cmds[6].stage = "docker_build_before"

\* C5: when git apply exits non-zero the run has ended: no docker command was
\* started, no report was written and the exit status is non-zero.
C5_PatchApplyFailureAborts ==
  \A i \in Indices :
    (cmds[i].stage = "git_apply_patch" /\ NonZeroExit(cmds[i])) =>
      /\ pc = "done"
      /\ ~DockerStarted
      /\ report = <<>>
      /\ <<"f2p_report.json">> \notin files
      /\ exit_code # None /\ exit_code[1] # 0

\* C5 witness: git apply has exited non-zero.
C5_Witness ==
  \E i \in Indices : cmds[i].stage = "git_apply_patch" /\ NonZeroExit(cmds[i])

BuildStage(l) == IF l = "before" THEN "docker_build_before" ELSE "docker_build_after"

BuildFailed(l) ==
  \E i \in Indices : cmds[i].stage = BuildStage(l) /\ NonZeroExit(cmds[i])

\* C6 (as claimed): a run in which a docker build exited non-zero is not
\* aborted: when it has ended, both sides have an outcome, the failed side is
\* non-passing, the other side's build was started, and one report with a
\* label was written; pass2fail when only the after build failed and the
\* before test passed.
C6_BuildFailureDoesNotAbort ==
  (pc = "done" /\ (BuildFailed("before") \/ BuildFailed("after"))) =>
    /\ \A l \in Labels : outcome[l] # None
    /\ \A l \in Labels : BuildFailed(l) => ~Bool(outcome[l][1].test_ok)
    /\ \E i \in Indices : cmds[i].stage = "docker_build_after"
    /\ Len(report) = 1
    /\ (~BuildFailed("before") /\ Bool(outcome["before"][1].test_ok))
         => report[1].status = "pass2fail"

\* C7: a run that wrote a report ends with exit status 0, whatever the label
\* and whatever the removal commands did; a run that ended before any docker
\* command (missing tool, bad bundle, failed workspace command) ends with a
\* non-zero exit status.
C7_ExitStatus ==
  pc = "done" =>
    /\ exit_code # None
    /\ report # <<>> => exit_code = Some(0)
    /\ ~DockerStarted => exit_code[1] # 0

\* C7 witness: a pass2fail report was written and a removal command timed out
\* before the run ended.
C7_Witness ==
  /\ pc = "done"
  /\ Len(report) = 1 /\ report[1].status = "pass2fail"
  /\ \E i \in Indices : cmds[i].verb = "worktree remove --force" /\ TimedOut(cmds[i])

\* C8 (as claimed): for every command whose child was still running at the
\* timeout, _run returned a RunResult with ok = false.
C8_TimeoutReturnsFailedResult ==
  \A i \in Indices :
    TimedOut(cmds[i]) =>
      /\ cmds[i].res.raised = ""
      /\ cmds[i].res.returned # None
      /\ ~cmds[i].res.returned[1].ok

\* C9 (as claimed): a run in which a docker build or test command exceeded its
\* timeout is not aborted: when it has ended both sides have an outcome, the
\* timed-out side is non-passing, and a report was written.
C9_DockerTimeoutDoesNotAbort ==
  \A i \in Indices :
    (pc = "done" /\ cmds[i].tool = "docker" /\ TimedOut(cmds[i])) =>
      /\ \A l \in Labels : outcome[l] # None
      /\ Len(report) = 1
      /\ <<"f2p_report.json">> \in files

\* C10 (as claimed): any two invocations that have obtained a run identifier
\* have different run identifiers.
C10_RunIdsUnique ==
  \A i \in 1..MaxRuns, j \in 1..MaxRuns :
    (i # j /\ runs[i].run_id # None /\ runs[j].run_id # None)
      => runs[i].run_id # runs[j].run_id

\* ------------------------------------------------ claims C11 .. C20

Range(f) == {f[i] : i \in DOMAIN f}

\* The run was aborted: it has ended with a non-zero exit status.
Aborted == pc = "done" /\ exit_code # None /\ exit_code[1] # 0

\* Nothing of the run exists: no run directory, no meta.json, no log, and no
\* git or docker command was executed.
NothingStarted == dirs = {} /\ files = {} /\ meta = None /\ cmds = <<>>

MissingStr(o) == o \in {None, Some("")}

BlankPatch(o) == o \in {None, Some(""), Some(" ")}

\* The precondition errors of section 4.1, stated on what the latest step of
\* main() found in its environment.
BundleDirMissing == input.step = "start" /\ ~input.bundle_exists

ToolMissing == input.step = "start" /\ {"git", "docker"} \ input.which # {}

NoIssueDescriptor ==
  input.step = "issue_json" /\ Range(input.listing) \cap IssueJsonNames = {}

UnparsableUrl ==
  /\ input.step = "load"
  /\ \/ input.url = None
     \/ input.url[1][1] # "github.com"
     \/ input.url[1][4] \notin {"issues", "pull"}

NoLinkedPR == input.step = "load" /\ input.read_prs /\ input.linked_prs = <<>>

MissingBaseSha ==
  /\ input.step = "load" /\ input.read_prs /\ input.linked_prs # <<>>
  /\ MissingStr(input.linked_prs[1].base_sha)

MissingPatch ==
  /\ input.step = "load" /\ input.read_prs /\ input.linked_prs # <<>>
  /\ BlankPatch(input.linked_prs[1].patch)

NoDockerfile ==
  input.step = "dockerfile" /\ Range(input.listing) \cap DockerfileNames = {}

NoTestFile ==
  /\ input.step = "tests"
  /\ Range(input.listing) \cap (TestPyNames \cup {"util.py"}) = {}

PreconditionError ==
  \/ BundleDirMissing \/ ToolMissing \/ NoIssueDescriptor \/ UnparsableUrl
  \/ NoLinkedPR \/ MissingBaseSha \/ MissingPatch \/ NoDockerfile \/ NoTestFile

\* C11: every precondition error (bundle directory missing, git or docker
\* missing, no issue descriptor, no dockerfile, no test file, unparsable issue
\* URL, no linked PR, missing base_sha, missing patch text) ends the run with
\* a non-zero exit status before the run directory and meta.json exist and
\* before any git or docker command was executed.
C11_PreconditionErrorsAbortEarly ==
  PreconditionError => Aborted /\ NothingStarted

\* A run aborted for a linked PR whose base_sha is the empty string, after
\* every earlier check passed.
C11_Witness ==
  /\ MissingBaseSha /\ input.linked_prs[1].base_sha = Some("")
  /\ ~BlankPatch(input.linked_prs[1].patch)
  /\ Aborted /\ NothingStarted

\* The tool a "Missing required tool" message names.
NamedTool(msg) ==
  CASE msg = "Missing required tool: git. Please install it first." -> "git"
    [] msg = "Missing required tool: docker. Please install it first." -> "docker"
    [] OTHER -> "none"

\* C12: with the bundle directory present and docker not installed, the run
\* is aborted at the tool check, the message names a tool that is missing
\* (docker when git is installed), and no git command is ever executed.
C12_DockerMissingAbortsAtToolCheck ==
  (input.step = "start" /\ input.bundle_exists /\ "docker" \notin input.which) =>
    /\ Aborted
    /\ cmds = <<>>
    /\ Len(stderr) = 1
    /\ NamedTool(stderr[1]) \in {"git", "docker"} \ input.which
    /\ "git" \in input.which => NamedTool(stderr[1]) = "docker"

\* git installed, docker not: the run ended naming docker.
C12_Witness ==
  /\ input.step = "start" /\ input.bundle_exists /\ input.which = {"git"}
  /\ pc = "done" /\ NamedTool(stderr[1]) = "docker"

\* A linked PR record with a non-empty base_sha and a non-blank patch.
Qualifies(pr) == ~MissingStr(pr.base_sha) /\ ~BlankPatch(pr.patch)

FirstQualifying(prs) ==
  CHOOSE i \in DOMAIN prs :
    Qualifies(prs[i]) /\ \A j \in DOMAIN prs : Qualifies(prs[j]) => i <= j

\* The linked PRs were read and are not empty.
ReadLinkedPRs ==
  input.step = "load" /\ input.read_prs /\ input.linked_prs # <<>>

\* C13 (as claimed): the base revision and the patch are those of the first
\* linked PR record that has both a non-empty base_sha and a non-empty patch;
\* earlier records lacking either are skipped, and the run is aborted only
\* when no record qualifies.
C13_FirstQualifyingPRUsed ==
  (ReadLinkedPRs /\ \E i \in DOMAIN input.linked_prs : Qualifies(input.linked_prs[i])) =>
    LET pr == input.linked_prs[FirstQualifying(input.linked_prs)]
    IN  /\ ~Aborted
        /\ issue # None
        /\ issue[1].base_sha = pr.base_sha[1]
        /\ issue[1].patch_text = pr.patch[1]

\* C13 (amended): the base revision and the patch are those of the first
\* linked PR record, linked_prs[0]; when that record lacks a non-empty
\* base_sha or a non-blank patch the run is aborted with status 2, whatever
\* the later records hold; the base revision recorded in meta.json is the one
\* of that record.
C13_FirstPRUsed ==
  /\ ReadLinkedPRs =>
       LET pr0 == input.linked_prs[1]
       IN  IF Qualifies(pr0)
             THEN /\ ~Aborted
                  /\ issue # None
                  /\ issue[1].base_sha = pr0.base_sha[1]
                  /\ issue[1].head_sha = pr0.head_sha
                  /\ issue[1].patch_text = pr0.patch[1]
             ELSE /\ Aborted /\ exit_code = Some(2)
                  /\ issue = None
                  /\ NothingStarted
  /\ meta # None => meta[1].base_sha = issue[1].base_sha

\* The first record lacks a patch, the second record qualifies, and the run
\* was aborted.
C13_Witness ==
  /\ ReadLinkedPRs /\ Len(input.linked_prs) >= 2
  /\ ~Qualifies(input.linked_prs[1]) /\ Qualifies(input.linked_prs[2])
  /\ Aborted /\ issue = None

\* The first linked PR has a base_sha and an empty, blank or absent patch.
EmptyPatchLoaded ==
  /\ ReadLinkedPRs
  /\ ~MissingStr(input.linked_prs[1].base_sha)
  /\ BlankPatch(input.linked_prs[1].patch)

TestStage(l) == IF l = "before" THEN "pytest_before" ELSE "pytest_after"

\* The test command of side l ran and its child exited with a non-zero status.
TestFailed(l) ==
  \E i \in Indices : cmds[i].stage = TestStage(l) /\ NonZeroExit(cmds[i])

\* C14 (as claimed): a run whose patch is empty is not aborted before it has
\* classified the issue (as fail2fail when the base test fails).
C14_EmptyPatchGivesFail2Fail ==
  EmptyPatchLoaded => ~(pc = "done" /\ report = <<>>)

\* C14 (amended): an empty, blank or absent patch aborts the run with status
\* 2 before any command is executed and nothing is classified; a run whose
\* (non-blank) patch was applied and whose test exited non-zero on both sides
\* reports test_ok = false for both sides and the status fail2fail.
C14_EmptyPatchAbortsElseFail2Fail ==
  /\ EmptyPatchLoaded =>
       /\ Aborted /\ exit_code = Some(2)
       /\ report = <<>> /\ cmds = <<>>
  /\ cmds # <<>> => issue # None /\ ~BlankPatch(Some(issue[1].patch_text))
  /\ (TestFailed("before") /\ TestFailed("after")) =>
       /\ Len(report) = 1
       /\ report[1].before.test_ok = Some(FALSE)
       /\ report[1].after.test_ok = Some(FALSE)
       /\ report[1].status = "fail2fail"

\* The test failed on both sides of an applied patch; the report says
\* fail2fail.
C14_Witness ==
  /\ TestFailed("before") /\ TestFailed("after")
  /\ \E i \in Indices : cmds[i].stage = "git_apply_patch" /\ cmds[i].child = Some(0)
  /\ Len(report) = 1 /\ report[1].status = "fail2fail"

IsTest(c) == c.verb = "run --rm pytest"

IsBuild(c) == c.verb = "build"

\* C15: the test command of a side is executed only directly after the build
\* of that side ended with exit status 0; a side whose build did not succeed
\* never has its test command executed, and after a build that exited
\* non-zero the outcome of the side is recorded at once with no test exit
\* status.
C15_NoTestWithoutBuild ==
  /\ \A i \in Indices :
       IsTest(cmds[i]) =>
         /\ i > 1
         /\ IsBuild(cmds[i - 1])
         /\ cmds[i - 1].cwd = cmds[i].cwd
         /\ cmds[i - 1].image = cmds[i].image
         /\ cmds[i - 1].child = Some(0)
  /\ \A l \in Labels :
       \A i \in Indices :
         (cmds[i].stage = BuildStage(l) /\ cmds[i].child # Some(0)) =>
           /\ \A j \in Indices : cmds[j].stage # TestStage(l)
           /\ NonZeroExit(cmds[i]) =>
                outcome[l] # None /\ outcome[l][1].test_exit = None

\* The build of the base side failed, the run went on and tested the head
\* side only.
C15_Witness ==
  /\ BuildFailed("before")
  /\ \E i \in Indices : cmds[i].stage = "pytest_after"
  /\ \A i \in Indices : cmds[i].stage # "pytest_before"

IsRemoval(c) == c.verb = "worktree remove --force"

\* C16: a worktree is removed only after f2p_report.json was written; a
\* removal that fails (non-zero exit or timeout) is never fatal: the steps of
\* the cleanup leave the report and the files of the run as they are, and the
\* run ends with exit status 0.
C16_CleanupAfterReportNeverFatal ==
  /\ \A i \in Indices :
       IsRemoval(cmds[i]) =>
         /\ Len(report) = 1
         /\ <<"f2p_report.json">> \in files
         /\ report[1].before = outcome["before"][1]
         /\ report[1].after = outcome["after"][1]
         /\ pc = "done" => exit_code = Some(0)
  /\ pc \in {"rm_base", "rm_head"} =>
       Len(report) = 1 /\ <<"f2p_report.json">> \in files

\* Both removals failed, one by exit status and one by timeout, and the run
\* ended.
C16_Witness ==
  /\ pc = "done" /\ Len(report) = 1
  /\ \E i \in Indices : IsRemoval(cmds[i]) /\ NonZeroExit(cmds[i])
  /\ \E i \in Indices : IsRemoval(cmds[i]) /\ TimedOut(cmds[i])

\* C17: no external command is retried: every command of the pipeline is
\* executed at most once in a run, also after it failed or timed out.
C17_NoRetry ==
  \A i \in Indices, j \in Indices : i # j => cmds[i].stage # cmds[j].stage

\* The build of the base side failed, a later command timed out, the run has
\* ended.
C17_Witness ==
  /\ pc = "done"
  /\ BuildFailed("before")
  /\ TimedOut(cmds[Len(cmds)])

\* The steps main() writes <stage>.stdout.txt and <stage>.stderr.txt for:
\* every command but the removal of the worktrees.
IsLoggedStep(c) == ~IsRemoval(c)

\* C18 (as claimed): the stdout and stderr files of every external step that
\* was invoked exist once the pipeline has moved on or ended, also when the
\* step failed by a non-zero exit status or by timeout.
C18_LogsOfEveryStepExist ==
  \A i \in Indices : IsLoggedStep(cmds[i]) => LogFiles(cmds[i].stage) \subseteq files

\* Whether a message on stderr names a log file or the directory of the logs.
PointsToLogs(msg) ==
  msg \in { "git clone failed (see logs under run_root)",
            "git apply patch failed (see git_apply_patch.stderr.txt)" }

\* C19 (as claimed): when the run has ended because a workspace command
\* exited with a non-zero status, the last message on stderr points to the
\* log file or the log directory of that command.
C19_FailureMessagePointsToLogs ==
  (/\ pc = "done" /\ cmds # <<>>
   /\ cmds[Len(cmds)].stage \in Range(WorkspaceStages)
   /\ NonZeroExit(cmds[Len(cmds)])) =>
     stderr # <<>> /\ PointsToLogs(stderr[Len(stderr)])

\* The file names of the model in the order of Python's string comparison,
\* written out.
LexOrder ==
  << "claude.dockerfile", "gpt.dockerfile", "issue_256.json", "issue_9.json",
     "issue_tools.py", "test1.py", "test256.py", "util.py" >>

Rank(n) == CHOOSE k \in DOMAIN LexOrder : LexOrder[k] = n

\* n is the smallest name of S.
Smallest(n, S) == n \in S /\ \A m \in S : Rank(n) <= Rank(m)

\* seq lists exactly the names of S in strictly ascending order.
Ascending(seq, S) ==
  /\ Range(seq) = S
  /\ \A i \in DOMAIN seq, j \in DOMAIN seq : i < j => Rank(seq[i]) < Rank(seq[j])

\* C20: what is selected from a bundle directory depends only on the names it
\* holds, not on the order the directory lists them in: the issue descriptor
\* and the dockerfile are the lexicographically smallest candidates, and the
\* test files are all the test*.py files (without any, the *.py files not
\* starting with issue_) in ascending order.
C20_SelectionIndependentOfListing ==
  /\ (input.step = "issue_json" /\ input.listing # <<>>) =>
       input.loaded # None /\ Smallest(input.loaded[1], Range(input.listing))
  /\ (input.step = "dockerfile" /\ input.listing # <<>>) =>
       picked # None /\ Smallest(picked[1].dockerfile_src, Range(input.listing))
  /\ (input.step = "tests" /\ ~NoTestFile) =>
       LET names == Range(input.listing)
           tests == names \cap TestPyNames
       IN  /\ picked # None
           /\ Ascending(picked[1].test_files,
                        IF tests # {} THEN tests ELSE names \cap {"util.py"})

\* The directory listed its two test files in descending order, with another
\* file in between; they were picked in ascending order.
C20_Witness ==
  /\ input.step = "tests"
  /\ input.listing = << "test256.py", "util.py", "test1.py" >>
  /\ picked[1].test_files = << "test1.py", "test256.py" >>

\* ------------------------------------------------ claims C21 .. C30

\* The test command of side l ran and its child exited with status 0.
TestPassed(l) ==
  \E i \in Indices : cmds[i].stage = TestStage(l) /\ cmds[i].child = Some(0)

\* The classification table of section 4.6 as a function.
TableStatus(before_passed, after_passed) ==
  CASE ~before_passed /\ after_passed  -> "fail2pass"
    [] ~before_passed /\ ~after_passed -> "fail2fail"
    [] before_passed /\ after_passed   -> "pass2pass"
    [] before_passed /\ ~after_passed  -> "pass2fail"

\* C21: f2p_report.json is written at most once per run and only after both
\* outcome records exist; its status is one of the four labels and is the
\* table of section 4.6 applied to (before test passed, after test passed).
C21_ReportOnceWithTableStatus ==
  /\ Len(report) <= 1
  /\ <<"f2p_report.json">> \in files <=> Len(report) = 1
  /\ report # <<>> =>
       /\ \A l \in Labels : outcome[l] # None
       /\ report[1].status \in {"fail2pass", "fail2fail", "pass2pass", "pass2fail"}
       /\ report[1].status = TableStatus(TestPassed("before"), TestPassed("after"))

\* Both builds succeeded, the test failed before and passed after: fail2pass.
C21_Witness ==
  /\ Len(report) = 1 /\ report[1].status = "fail2pass"
  /\ \A l \in Labels :
       \E i \in Indices : cmds[i].stage = BuildStage(l) /\ cmds[i].child = Some(0)
  /\ TestFailed("before") /\ TestPassed("after")

\* C22 (as claimed): in a run that has ended after the build/test step of the
\* before side was started, the build/test step of the after side was
\* executed too, whatever became of the before side.
C22_AfterSideAlwaysRuns ==
  (pc = "done" /\ \E i \in Indices : cmds[i].stage = "docker_build_before") =>
    \E j \in Indices : cmds[j].stage = "docker_build_after"

\* C23: the patch is applied only inside the head worktree: the base worktree
\* is never patched and stays at base_sha; git apply runs in the head
\* worktree; the before side is built and tested in the base worktree and the
\* after side in the patched head worktree, and each outcome record carries
\* the label of its side.
C23_PatchOnlyInHead ==
  /\ wt["base"] # None =>
       ~wt["base"][1].patched /\ wt["base"][1].rev = meta[1].base_sha
  /\ \A i \in Indices :
       /\ cmds[i].stage = "git_apply_patch" => cmds[i].cwd = "head"
       /\ cmds[i].stage \in {"docker_build_before", "pytest_before"} =>
            cmds[i].cwd = "base"
       /\ cmds[i].stage \in {"docker_build_after", "pytest_after"} =>
            /\ cmds[i].cwd = "head"
            /\ wt["head"] # None => wt["head"][1].patched
  /\ \A l \in Labels :
       outcome[l] # None =>
         /\ outcome[l][1].label = l
         /\ \E i \in Indices :
              /\ cmds[i].stage = BuildStage(l)
              /\ cmds[i].image = Some(outcome[l][1].image)

\* Both sides have an outcome while both worktrees still exist: the base one
\* unpatched, the head one patched.
C23_Witness ==
  /\ \A l \in Labels : outcome[l] # None
  /\ wt["base"] # None /\ ~wt["base"][1].patched
  /\ wt["head"] # None /\ wt["head"][1].patched

\* Every run identifier main() can form within the bounds.
AllRunIds == {RunId(n, t) : n \in IssueNumbers, t \in 0..MaxTick}

\* C24: within a run the two sides never share an image tag or a worktree
\* directory, and no image tag of the run is the image tag of a run with a
\* different run identifier.
C24_TagsAndWorktreesDistinct ==
  /\ \A i \in Indices, j \in Indices :
       (cmds[i].image # None /\ cmds[j].image # None /\ cmds[i].cwd # cmds[j].cwd)
         => cmds[i].image # cmds[j].image
  /\ \A i \in Indices, j \in Indices :
       (/\ cmds[i].stage = "git_worktree_base"
        /\ cmds[j].stage = "git_worktree_head") => cmds[i].target # cmds[j].target
  /\ \A i \in Indices :
       /\ cmds[i].stage \in {"docker_build_before", "pytest_before"} =>
            cmds[i].cwd = "base"
       /\ cmds[i].stage \in {"docker_build_after", "pytest_after"} =>
            cmds[i].cwd = "head"
  /\ \A i \in Indices, r \in AllRunIds, l \in Labels :
       (cmds[i].image # None /\ r # meta[1].run_id) =>
         Image(r, l) # cmds[i].image[1]

\* Both sides were built, in a run whose identifier carries an issue number.
C24_Witness ==
  /\ \E i \in Indices : cmds[i].stage = "docker_build_before"
  /\ \E i \in Indices : cmds[i].stage = "docker_build_after"
  /\ Len(meta[1].run_id) = 4

\* What stage_bundle_into has to copy: the dockerfile and every test file.
Selected == {picked[1].dockerfile_src} \cup Range(picked[1].test_files)

\* C25: when the docker build of a side is started the dockerfile and every
\* selected test file have been copied into the worktree of that side, and
\* the copy into the head worktree was made after git apply succeeded.
C25_StagedBeforeBuild ==
  /\ pc \in {"build_before", "test_before", "build_after", "test_after"} =>
       \A d \in Worktrees : wt[d] # None /\ wt[d][1].staged = Selected
  /\ \A i \in Indices :
       (IsBuild(cmds[i]) /\ wt[cmds[i].cwd] # None) =>
         LET w == wt[cmds[i].cwd][1] IN
         /\ w.staged = Selected
         /\ w.staged_after < i
  /\ (wt["head"] # None /\ wt["head"][1].staged # {}) =>
       LET k == wt["head"][1].staged_after IN
       /\ k \in Indices
       /\ \E j \in 1..k : cmds[j].stage = "git_apply_patch" /\ cmds[j].child = Some(0)
       /\ wt["head"][1].patched

\* The after side is about to be built in a run with two test files.
C25_Witness ==
  /\ pc = "build_after"
  /\ Len(picked[1].test_files) = 2
  /\ wt["head"][1].staged = Selected

\* C26 (as claimed): a run without --keep-workdir that has ended after its
\* classification has attempted the removal of the base and of the head
\* worktree.
C26_BothRemovalsAttempted ==
  (pc = "done" /\ Len(report) = 1 /\ ~args.keep_workdir) =>
    /\ \E i \in Indices : cmds[i].stage = "git_worktree_remove_base"
    /\ \E i \in Indices : cmds[i].stage = "git_worktree_remove_head"

\* The URL read by the latest step has the form
\* <host>/<owner>/<repo>/(issues|pull)/<number>.
UrlHasIssueForm ==
  /\ input.step = "load"
  /\ input.url # None
  /\ input.url[1][4] \in {"issues", "pull"}

\* C27 (as claimed): an issue URL of the form
\* .../<owner>/<repo>/(issues|pull)/<number> is parsed whatever its host.
C27_AnyHostParsed ==
  UrlHasIssueForm => input.read_prs

\* C27 (amended): the repository identifier is the <owner>/<repo> part of an
\* issue URL that contains github.com/<owner>/<repo>/(issues|pull)/<number>;
\* a URL of another host, of another form or an absent URL ends the run with
\* a ValueError (exit status 1) before anything is written.
C27_GithubUrlParsed ==
  /\ input.step = "load" =>
       IF UrlHasIssueForm /\ input.url[1][1] = "github.com"
         THEN /\ input.read_prs
              /\ issue # None => issue[1].repo = <<input.url[1][2], input.url[1][3]>>
         ELSE /\ ~input.read_prs
              /\ Aborted /\ exit_code = Some(1)
              /\ stderr[Len(stderr)] = "ValueError"
              /\ NothingStarted
  /\ meta # None => meta[1].repo = issue[1].repo

\* An issue URL of another host: the run was aborted.
C27_Witness ==
  /\ UrlHasIssueForm /\ input.url[1][1] = "gitlab.com"
  /\ Aborted /\ NothingStarted

\* C28: every outcome record is consistent: build_ok is true exactly when
\* build_exit is 0, test_exit is null exactly when build_ok is false, and
\* test_ok is true exactly when build_ok is true and test_exit is 0; the exit
\* statuses are those of the children.
C28_OutcomeConsistent ==
  \A l \in Labels :
    outcome[l] # None =>
      LET o == outcome[l][1] IN
      /\ o.build_ok <=> o.build_exit = 0
      /\ o.test_exit = None <=> ~o.build_ok
      /\ o.test_ok = Some(TRUE) <=> (o.build_ok /\ o.test_exit = Some(0))
      /\ \E i \in Indices :
           cmds[i].stage = BuildStage(l) /\ cmds[i].child = Some(o.build_exit)
      /\ o.test_exit # None =>
           \E i \in Indices :
             cmds[i].stage = TestStage(l) /\ cmds[i].child = o.test_exit

\* One side failed to build, the other was built and its test failed.
C28_Witness ==
  /\ outcome["before"] # None /\ ~outcome["before"][1].build_ok
  /\ outcome["after"] # None /\ outcome["after"][1].build_ok
  /\ outcome["after"][1].test_exit = Some(1)

\* C29 (as claimed): after record_session_start followed by
\* record_session_end, both with a writable disk, the statistics file holds
\* the session_start written by the start call and a non-null session_end,
\* whatever the usage API returned.
C29_SessionEndSaved ==
  (/\ stats.end # None
   /\ stats.start[1].disk_ok /\ stats.end[1].disk_ok) =>
     /\ stats.file # None
     /\ stats.file[1].session_start = Some(stats.start[1].now)
     /\ stats.file[1].session_end # None

\* C30 (as claimed): a view command that follows a plan command does not
\* report that no task list exists.
C30_ViewShowsPlannedList ==
  \A i \in DOMAIN tt, j \in DOMAIN tt :
    (j < i /\ tt[j].command = "plan" /\ tt[j].task_list.kind = "list"
     /\ tt[i].command = "view") =>
      tt[i].out # NoTaskListFound

====
